---- MODULE Spec2Model ----
(***************************************************************************)
(* A state-machine model of the kart game's collision core: the registry   *)
(* (Colliding), the per-entity isColliding handlers, the kart's power-up   *)
(* bookkeeping and the projectile life cycles (Shuriken, Bomb).            *)
(*                                                                         *)
(* Units.  Lengths are integers in thousandths of a world unit, times in   *)
(* milliseconds, velocities in thousandths of a unit per second (bomb) or  *)
(* per moveForward unit (shuriken).  A vector is a triple <<x, y, z>>.     *)
(* Bounding boxes are axis aligned: a centre and half extents per kind of  *)
(* entity, taken from the geometry the constructors build.                 *)
(***************************************************************************)
EXTENDS Integers, Sequences, FiniteSets, TLC

VARIABLES
    colisionObjects,   \* Colliding.colisionObjects: the active list, in registration order
    objectsRemove,     \* Colliding.objectsRemove: the pending-removal set
    ent,               \* every constructed object: id -> its fields
    kart,              \* the Kart's own fields (speed, boost, power-up lists)
    scene,             \* scene.children, in insertion order
    pc,                \* "running" between frames, "sweep" inside a frame before checkCollision,
                       \* "crashed" after an uncaught throw, which ends the animation loop
    calls,             \* history: the isColliding calls of the latest sweep, in order
    sweepStart,        \* history: colisionObjects as the latest sweep found it
    frames,            \* number of animate() calls so far
    hist               \* history: per-object counters (cleanups, explode calls, time fed to update)

vars == <<colisionObjects, objectsRemove, ent, kart, scene, pc, calls,
          sweepStart, frames, hist>>

----------------------------------------------------------------------------
(* Bounds of the model *)

MaxFrames == 5          \* animate() is called at most this many times
MaxUpdates == 7         \* Bomb.update calls in the bomb life-cycle specification

----------------------------------------------------------------------------
(* Vector arithmetic (three.js Vector3), on integer triples *)

U == 1000               \* one world unit / the length of a unit vector

VAdd(a, b) == <<a[1] + b[1], a[2] + b[2], a[3] + b[3]>>
VSub(a, b) == <<a[1] - b[1], a[2] - b[2], a[3] - b[3]>>
VNeg(a) == <<0 - a[1], 0 - a[2], 0 - a[3]>>

\* Integer division that rounds toward zero, as a float truncated to the grid would
QuotZ(a, b) == IF a >= 0 THEN a \div b ELSE 0 - ((0 - a) \div b)

\* a * num / den, componentwise (Vector3.multiplyScalar with the rational num/den)
VScale(a, num, den) == <<QuotZ(a[1] * num, den), QuotZ(a[2] * num, den), QuotZ(a[3] * num, den)>>

\* a + b * s where s = num/den (Vector3.addScaledVector)
VAddScaled(a, b, num, den) == VAdd(a, VScale(b, num, den))

\* Vector3.dot for a unit-scaled second argument: (a . n) / U
Dot(a, n) == QuotZ(a[1] * n[1] + a[2] * n[2] + a[3] * n[3], U)

LengthSq(a) == a[1] * a[1] + a[2] * a[2] + a[3] * a[3]

RECURSIVE IsqrtIn(_, _, _)
IsqrtIn(n, lo, hi) ==
    IF lo >= hi THEN lo
    ELSE LET mid == (lo + hi + 1) \div 2
         IN  IF mid * mid <= n THEN IsqrtIn(n, mid, hi) ELSE IsqrtIn(n, lo, mid - 1)

\* floor(sqrt(n)); exact on the perfect squares the model's vectors produce
Isqrt(n) == IsqrtIn(n, 0, 46340)

Length(a) == Isqrt(LengthSq(a))

\* a scaled to length U, given its length (the zero vector stays zero)
Unit(a, len) == IF len = 0 THEN <<0, 0, 0>> ELSE VScale(a, U, len)

\* Vector3.normalize
Normalize(a) == Unit(a, Length(a))

----------------------------------------------------------------------------
(* Objects.  ent is the sequence of every object constructed so far; an    *)
(* object's id is its index.  Every object carries the same fields; those  *)
(* its class does not have keep their defaults.                            *)

NoVec == <<0, 0, 0>>
Forward == <<0, 0, U>>          \* the local +Z axis of an unrotated object

Obj(kind, pos) ==
    [ kind             |-> kind,
      pos              |-> pos,        \* body.position (local to its parent)
      parent           |-> "scene",    \* body.parent: "scene", "holder" (kart.powerUpsList) or "none"
      normal           |-> Forward,    \* world forward axis of the body (walls: the facing normal)
      half             |-> NoVec,      \* walls: half extents of the box geometry, world axes
      \* Shuriken / Bomb
      launched         |-> FALSE,
      owner            |-> FALSE,      \* Shuriken.parent is the kart
      bounces          |-> 0,
      velocity         |-> NoVec,
      \* Bomb
      exploded         |-> FALSE,
      timer            |-> 0,
      explosionElapsed |-> 0,
      cleanupScheduled |-> FALSE,
      scale            |-> U,          \* mesh.scale (uniform), in thousandths
      material         |-> "none",     \* "bomb" before the explosion, "lava" after
      fuse             |-> FALSE ]     \* the fuse mesh is attached

\* new Shuriken(): velocity (0,0,-1), scale 0.1, not launched, no bounces
NewShuriken == [Obj("Shuriken", NoVec) EXCEPT !.velocity = <<0, 0, 0 - U>>]

\* new Bomb(): timer 3 s, gravity-driven velocity 0, fuse attached
FuseTime == 3000
NewBomb == [Obj("Bomb", NoVec) EXCEPT !.timer = FuseTime, !.material = "bomb", !.fuse = TRUE]

NewCoffee == Obj("Coffee", NoVec)

\* new Walls(length, height, thickness) placed at pos, facing along normal
NewWall(pos, normal, half) == [Obj("Wall", pos) EXCEPT !.normal = normal, !.half = half]

\* history of one object: cleanup steps run, explode() calls, explode() calls made
\* by a collision handler, update() calls and the time they were fed, and the
\* times a shuriken's handler found it on a cone
NoHist == [cleanups |-> 0, explodes |-> 0, hits |-> 0, updates |-> 0, fed |-> 0, cones |-> 0]

KindOf(w, id) == w.ent[id].kind

----------------------------------------------------------------------------
(* World-space bounding boxes (utils.ts: worldAABB_Mesh, worldAABB_Group,  *)
(* aabbIntersects).                                                        *)

\* A rotation about the Y axis by 0 (facing = 1) or by pi (facing = -1)
Turn(facing, v) == <<facing * v[1], v[2], facing * v[3]>>

\* getWorldPosition: the parents' transforms, brought up to date, applied to
\* the local position. The holder (kart.powerUpsList) sits at holderPos with
\* the rotation holderFacing; a body with no parent, or a child of the scene,
\* has its local position as world position.
WorldPos(w, id) ==
    IF w.ent[id].parent = "holder"
    THEN VAdd(w.kart.holderPos, Turn(w.kart.holderFacing, w.ent[id].pos))
    ELSE w.ent[id].pos

\* Centre and half extents of the world box of each kind relative to the
\* body's position: the union, over the meshes of the body, of the
\* geometry's bounding box carried through the mesh's matrixWorld. The kart
\* is taken with the rotation createKart gives it and its wheels straight,
\* the pickup's crate in the middle of its bob and unrotated, the shuriken
\* with its mesh scale of 0.1.
KartHalf     == <<1909, 1061, 2462>>
KartCentre   == <<0, 361, 147>>
ConeHalf     == <<300, 525, 300>>
ConeCentre   == <<0, 0 - 25, 0>>
PowerUpHalf  == <<540, 540, 540>>
PowerUpCentre == <<0, 1090, 0>>
ShurikenHalf == <<600, 50, 600>>
ShurikenCentre == <<0, 150, 0>>
TrackHalf    == <<75000, 0, 75000>>
BombRadius == 500

\* The box of a body in its own frame, before translation: [lo, hi]
Box(c, h) == [lo |-> VSub(c, h), hi |-> VAdd(c, h)]

\* A bomb's body is a mesh: its box is that of the sphere geometry alone,
\* scaled with the mesh (the fuse, a child mesh, is not part of it)
BombBox(r) == [lo |-> <<0 - r, 0 - r, 0 - r>>, hi |-> <<r, r, r>>]

CentreOf(e) ==
    CASE e.kind = "Kart"     -> KartCentre
      [] e.kind = "Cone"     -> ConeCentre
      [] e.kind = "PowerUp"  -> PowerUpCentre
      [] e.kind = "Shuriken" -> ShurikenCentre
      [] OTHER               -> NoVec

HalfOf(e) ==
    CASE e.kind = "Kart"     -> KartHalf
      [] e.kind = "Cone"     -> ConeHalf
      [] e.kind = "PowerUp"  -> PowerUpHalf
      [] e.kind = "Shuriken" -> ShurikenHalf
      [] e.kind = "Track"    -> TrackHalf
      [] e.kind = "Wall"     -> e.half
      [] OTHER               -> NoVec

LocalBox(e) ==
    IF e.kind = "Bomb"
    THEN BombBox((BombRadius * e.scale) \div U)
    ELSE Box(CentreOf(e), HalfOf(e))

\* a box moved by p
Translate(p, b) == [lo |-> VAdd(p, b.lo), hi |-> VAdd(p, b.hi)]

\* body.updateMatrixWorld(true): the body's matrixWorld is recomputed from its
\* parent's matrixWorld as it stands, and the holder's is the one the last
\* scene.updateMatrixWorld left (holderWorld, holderWorldFacing)
MatrixWorldPos(w, id) ==
    IF w.ent[id].parent = "holder"
    THEN VAdd(w.kart.holderWorld, Turn(w.kart.holderWorldFacing, w.ent[id].pos))
    ELSE w.ent[id].pos

\* The world AABB of an object: [lo, hi]
WorldAABB(w, id) == Translate(MatrixWorldPos(w, id), LocalBox(w.ent[id]))

\* a variant in which the upper bound of the first box is exclusive
IntersectsBoxOpen(a, b) ==
    \A k \in 1..3 : ~(a.hi[k] <= b.lo[k] \/ a.lo[k] > b.hi[k])

\* Box3.intersectsBox: overlap on all three axes, bounds inclusive
IntersectsBox(a, b) ==
    \A k \in 1..3 : ~(a.hi[k] < b.lo[k] \/ a.lo[k] > b.hi[k])

\* the world boxes of two bodies, compared
Overlap(boxes, a, b) == IntersectsBox(boxes[a], boxes[b])

aabbIntersects(w, a, b) == Overlap([id \in {a, b} |-> WorldAABB(w, id)], a, b)

----------------------------------------------------------------------------
(* Sequence helpers (Array.prototype.indexOf / splice) *)

\* 0-based index of the first x in s, or -1
IndexOf(s, x) ==
    IF \E k \in 1..Len(s) : s[k] = x
    THEN (CHOOSE k \in 1..Len(s) : s[k] = x /\ \A m \in 1..(k - 1) : s[m] # x) - 1
    ELSE 0 - 1

\* s without its element at 1-based position k (s itself when k is out of range)
RemoveAt(s, k) ==
    IF k < 1 \/ k > Len(s) THEN s
    ELSE [m \in 1..(Len(s) - 1) |-> IF m < k THEN s[m] ELSE s[m + 1]]

\* s.splice(index, 1) for a 0-based index: a negative index counts from the
\* end (clamped at 0), an index past the end removes nothing
Splice1(s, index) ==
    LET start == IF index < 0
                 THEN (IF Len(s) + index < 0 THEN 0 ELSE Len(s) + index)
                 ELSE index
    IN  RemoveAt(s, start + 1)

\* s without the first occurrence of x
RemoveFirst(s, x) == RemoveAt(s, IndexOf(s, x) + 1)

SeqToSet(s) == {s[k] : k \in 1..Len(s)}

----------------------------------------------------------------------------
(* The scene graph (three.js Object3D.add / remove), for the bodies whose  *)
(* parent changes: children of the scene and of the kart's holder group.   *)

HolderId == 0           \* kart.powerUpsList as a child of the scene
LightId == 0 - 1        \* the directional light initScene adds first

\* parent.remove(body): only a body found among the parent's children is detached
Detach(w, id) ==
    IF w.ent[id].parent = "scene" /\ id \in SeqToSet(w.scene)
    THEN [w EXCEPT !.scene = RemoveFirst(@, id), !.ent[id].parent = "none"]
    ELSE IF w.ent[id].parent = "holder" /\ id \in SeqToSet(w.kart.powerUpsList)
    THEN [w EXCEPT !.kart.powerUpsList = RemoveFirst(@, id), !.ent[id].parent = "none"]
    ELSE w

\* scene.remove(body)
sceneRemove(w, id) ==
    IF w.ent[id].parent = "scene" THEN Detach(w, id) ELSE w

\* the body becomes the last child of the scene / of the holder
AsSceneChild(w, id) == [w EXCEPT !.scene = Append(@, id), !.ent[id].parent = "scene"]
AsHolderChild(w, id) == [w EXCEPT !.kart.powerUpsList = Append(@, id), !.ent[id].parent = "holder"]

\* scene.add(body): leaves its old parent, then becomes the scene's last child
sceneAdd(w, id) == AsSceneChild(Detach(w, id), id)

\* kart.powerUpsList.add(body)
holderAdd(w, id) == AsHolderChild(Detach(w, id), id)

\* kart.powerUpsList.remove(body)
holderRemove(w, id) ==
    IF w.ent[id].parent = "holder" THEN Detach(w, id) ELSE w

\* scene.add(kart.powerUpsList): the holder becomes the scene's last child
sceneAddHolder(w) ==
    [w EXCEPT !.scene = Append(RemoveFirst(@, HolderId), HolderId)]

\* body.parent.children.indexOf(body), 0-based
IndexInParent(w, id) ==
    IF w.ent[id].parent = "scene" THEN IndexOf(w.scene, id)
    ELSE IndexOf(w.kart.powerUpsList, id)

\* parent.worldToLocal(worldPos) for the body's current parent
WorldToLocal(w, id, worldPos) ==
    IF w.ent[id].parent = "holder"
    THEN Turn(w.kart.holderFacing, VSub(worldPos, w.kart.holderPos))
    ELSE worldPos

----------------------------------------------------------------------------
(* Colliding: the registry *)

addColisionObject(w, id) == [w EXCEPT !.colisionObjects = Append(@, id)]

removeColisionObject(w, id) == [w EXCEPT !.colisionObjects = RemoveFirst(@, id)]

\* a variant that removes at once instead of deferring
RemoveAtOnce(w, id) == removeColisionObject(w, id)

addObjectToRemove(w, id) == [w EXCEPT !.objectsRemove = @ \cup {id}]

RECURSIVE RemoveAll(_, _)
RemoveAll(list, set) ==
    IF set = {} THEN list
    ELSE LET x == CHOOSE y \in set : TRUE
         IN  RemoveAll(RemoveFirst(list, x), set \ {x})

removeSelectedObjects(w) ==
    [w EXCEPT !.colisionObjects = RemoveAll(@, w.objectsRemove), !.objectsRemove = {}]

\* A constructor's common part: the new object gets the next id
Construct(w, rec) ==
    [w EXCEPT !.ent = Append(@, rec), !.hist = Append(@, NoHist)]

LastId(w) == Len(w.ent)

\* the object constructed last joins the scene and the registry
Enrol(w) == addColisionObject(sceneAdd(w, LastId(w)), LastId(w))
EnrolScene(w) == sceneAdd(w, LastId(w))

\* new Shuriken() / new Bomb(): scene.add(mesh), then addColisionObject(this)
ConstructProjectile(w, rec) == Enrol(Construct(w, [rec EXCEPT !.parent = "none"]))

\* new Coffee(): scene.add(mesh); a coffee is not registered for collisions
ConstructCoffee(w) == EnrolScene(Construct(w, [NewCoffee EXCEPT !.parent = "none"]))

----------------------------------------------------------------------------
(* utils.ts: directions, reflection, penetration resolution *)

\* getMovementDirectionWorld: a shuriken's normalized velocity when its squared
\* length exceeds 1e-6, otherwise the body's forward axis
getMovementDirectionWorld(w, id) ==
    LET vel == w.ent[id].velocity
    IN  IF w.ent[id].kind = "Shuriken" /\ LengthSq(vel) > 1
        THEN Normalize(vel)
        ELSE Forward

\* getObjectForwardWorld: the body's local +Z in world space
getObjectForwardWorld(w, id) == w.ent[id].normal

\* getPushDirection(A, B): normalized vector from A to B
getPushDirection(w, a, b) == Normalize(VSub(WorldPos(w, b), WorldPos(w, a)))

\* the static normal turned to face the incoming direction
FacingNormal(v, n) == IF Dot(v, n) > 0 THEN VNeg(n) ELSE n

\* a variant that removes the normal part once: v - (v.n) n, normalized
MirrorOnce(v, n) == Normalize(VSub(v, VScale(n, Dot(v, n), U)))

\* v - 2 (v.n) n, normalized
Mirror(v, n) == Normalize(VSub(v, VScale(n, 2 * Dot(v, n), U)))

\* R = V - 2 (V.N) N on unit vectors
Reflect(v, n0) == Mirror(v, FacingNormal(v, n0))

\* a variant that keeps the incoming direction
KeepDirection(w, id, wall) == getMovementDirectionWorld(w, id)

reflectDirection(w, id, wall) ==
    Reflect(getMovementDirectionWorld(w, id), getObjectForwardWorld(w, wall))

\* body.parent!.worldToLocal(...) on a body without parent throws
Throw(w) == [w EXCEPT !.thrown = TRUE]

\* Strengths of the nudges, in thousandths: the default and the kart's
DefaultStrength == 50
KartStrength == 10

\* body.position.copy(body.parent!.worldToLocal(worldPos))
MoveTo(w, id, worldPos) ==
    IF w.ent[id].parent = "none" THEN Throw(w)
    ELSE [w EXCEPT !.ent[id].pos = WorldToLocal(w, id, worldPos)]

\* resolvePenetrationKart(kart, wall, strength)
resolvePenetrationKart(w, id, wall, strength) ==
    MoveTo(w, id, VAddScaled(WorldPos(w, id), getObjectForwardWorld(w, wall), strength, U))

\* resolvePenetrationProyectil(shuriken, wall): strength defaults to 0.05
resolvePenetrationProyectil(w, id, wall) ==
    MoveTo(w, id, VAddScaled(WorldPos(w, id),
                             FacingNormal(getMovementDirectionWorld(w, id),
                                          getObjectForwardWorld(w, wall)),
                             DefaultStrength, U))

\* a variant that keeps the vertical component
Steep(d) == d

\* pushDir.y = 0
Flat(d) == <<d[1], 0, d[3]>>

\* the nudge along pushDir, skipped when pushDir is the zero vector
PushBy(w, id, pushDir, strength) ==
    IF LengthSq(pushDir) = 0 THEN w
    ELSE MoveTo(w, id, VAddScaled(WorldPos(w, id), pushDir, strength, U))

\* resolvePenetrationObstacles(kart, cone, strength): the push direction is
\* normalized first and only then loses its vertical component
resolvePenetrationObstacles(w, id, obstacle, strength) ==
    PushBy(w, id, Flat(getPushDirection(w, obstacle, id)), strength)

----------------------------------------------------------------------------
(* Bomb (bomb.ts) *)

ExplosionDuration == 5000
ExplosionStartScale == 100
ExplosionTargetScale == 9000

Min(a, b) == IF a < b THEN a ELSE b
Max(a, b) == IF a > b THEN a ELSE b

\* a variant of explode() without the guard
explodeAgain(w, id) ==
    [w EXCEPT !.hist[id].explodes = @ + 1,
              !.ent[id].exploded = TRUE,
              !.ent[id].explosionElapsed = 0,
              !.ent[id].cleanupScheduled = FALSE,
              !.ent[id].fuse = FALSE,
              !.ent[id].material = "lava",
              !.ent[id].scale = ExplosionStartScale]

\* Bomb.explode(): guarded by the exploded flag
explode(w, id) ==
    LET w1 == [w EXCEPT !.hist[id].explodes = @ + 1]
    IN  IF w.ent[id].exploded THEN w1
        ELSE [w1 EXCEPT !.ent[id].exploded = TRUE,
                        !.ent[id].explosionElapsed = 0,
                        !.ent[id].cleanupScheduled = FALSE,
                        !.ent[id].fuse = FALSE,
                        !.ent[id].material = "lava",
                        !.ent[id].scale = ExplosionStartScale]

\* THREE.MathUtils.lerp(start, target, t) with t = min(1, elapsed / duration)
ExplosionScale(elapsed) ==
    ExplosionStartScale
      + ((ExplosionTargetScale - ExplosionStartScale) * Min(elapsed, ExplosionDuration))
          \div ExplosionDuration

\* the cleanup step of Bomb.update
Cleanup(w, id) ==
    LET w1 == addObjectToRemove(sceneRemove(w, id), id)
    IN  [w1 EXCEPT !.ent[id].cleanupScheduled = TRUE, !.hist[id].cleanups = @ + 1]

\* gravity * 0.3, in thousandths per second squared
GravityPull == 2940

\* velocity.y -= gravity * deltaTime * 0.3
Fall(vel, dt) == <<vel[1], vel[2] - QuotZ(GravityPull * dt, U), vel[3]>>

\* position.addScaledVector(velocity, deltaTime); timer -= deltaTime
Fly(w, id, vel, dt) ==
    [w EXCEPT !.ent[id].velocity = vel,
              !.ent[id].pos = VAddScaled(@, vel, dt, U),
              !.ent[id].timer = @ - dt]

\* a variant that lets the fuse run one update longer
ExplodeIfOverdue(w, id) == IF w.ent[id].timer < 0 THEN explode(w, id) ELSE w

\* if (this.timer <= 0) this.explode()
ExplodeIfDue(w, id) == IF w.ent[id].timer <= 0 THEN explode(w, id) ELSE w

\* a variant of the explosion branch that cleans up at every later update
GrowAgain(w, id, dt) ==
    IF w.ent[id].explosionElapsed < ExplosionDuration
    THEN [w EXCEPT !.ent[id].explosionElapsed = @ + dt,
                   !.ent[id].scale = ExplosionScale(w.ent[id].explosionElapsed + dt)]
    ELSE Cleanup(w, id)

\* the explosion branch of Bomb.update: grow, then clean up once
Grow(w, id, dt) ==
    IF w.ent[id].explosionElapsed < ExplosionDuration
    THEN [w EXCEPT !.ent[id].explosionElapsed = @ + dt,
                   !.ent[id].scale = ExplosionScale(w.ent[id].explosionElapsed + dt)]
    ELSE IF ~w.ent[id].cleanupScheduled THEN Cleanup(w, id)
    ELSE w

\* one more update() call, fed dt
Fed(w, id, dt) == [w EXCEPT !.hist[id].fed = @ + dt, !.hist[id].updates = @ + 1]

\* a variant that cleans up in the very update that ends the growth
updateHasty(w, id, dt) ==
    IF w.ent[id].exploded
    THEN IF w.ent[id].explosionElapsed + dt >= ExplosionDuration
         THEN Cleanup(Fed(w, id, dt), id)
         ELSE Grow(Fed(w, id, dt), id, dt)
    ELSE ExplodeIfDue(Fly(Fed(w, id, dt), id, Fall(w.ent[id].velocity, dt), dt), id)

\* Bomb.update(deltaTime), deltaTime in milliseconds
update(w, id, dt) ==
    IF w.ent[id].exploded
    THEN Grow(Fed(w, id, dt), id, dt)
    ELSE ExplodeIfDue(Fly(Fed(w, id, dt), id, Fall(w.ent[id].velocity, dt), dt), id)

\* explode() called by a collision handler
Trigger(w, id) == explode([w EXCEPT !.hist[id].hits = @ + 1], id)

\* a variant that does not ask whether the bomb was launched
BombIsCollidingHeld(w, self, target) ==
    IF w.ent[self].exploded THEN w
    ELSE IF KindOf(w, target) \in {"Cone", "Wall"} /\ aabbIntersects(w, self, target)
         THEN Trigger(w, self)
         ELSE w

\* Bomb.isColliding(target)
BombIsColliding(w, self, target) ==
    IF w.ent[self].exploded THEN w
    ELSE IF KindOf(w, target) \in {"Cone", "Wall"} /\ w.ent[self].launched
         THEN IF aabbIntersects(w, self, target) THEN Trigger(w, self) ELSE w
         ELSE w

\* RaceTrack.isColliding(target): a launched bomb touching the ground explodes
RaceTrackIsColliding(w, self, target) ==
    IF KindOf(w, target) = "Bomb" /\ w.ent[target].launched
    THEN IF aabbIntersects(w, self, target) THEN Trigger(w, target) ELSE w
    ELSE w

----------------------------------------------------------------------------
(* Walls, TrafficCone, Shuriken (walls.ts, trafficCone.ts, part_002) *)

\* kart.speed *= 0.5
HalveSpeed(w) == [w EXCEPT !.kart.speed = QuotZ(@, 2)]

\* target.speed *= 0.5, reached only when the nudge did not throw
Slowed(w) == IF w.thrown THEN w ELSE HalveSpeed(w)

\* Walls.isColliding(target)
WallsIsColliding(w, self, target) ==
    IF KindOf(w, target) = "Kart" /\ aabbIntersects(w, target, self)
    THEN Slowed(resolvePenetrationKart(w, target, self, KartStrength))
    ELSE w

\* TrafficCone.isColliding, first test: a shuriken or a launched bomb removes the cone
ConeHit(w, self, target) ==
    IF (KindOf(w, target) = "Shuriken" \/ (KindOf(w, target) = "Bomb" /\ w.ent[target].launched))
       /\ aabbIntersects(w, self, target)
    THEN addObjectToRemove(sceneRemove(w, self), self)
    ELSE w

\* a variant that reacts twice to the one overlap
ConeBumpTwice(w, self, target) ==
    IF KindOf(w, target) = "Kart" /\ aabbIntersects(w, target, self)
    THEN Slowed(Slowed(resolvePenetrationObstacles(
                           resolvePenetrationObstacles(w, target, self, KartStrength),
                           target, self, KartStrength)))
    ELSE w

\* TrafficCone.isColliding, second test: a kart is pushed back and slowed
ConeBump(w, self, target) ==
    IF KindOf(w, target) = "Kart" /\ aabbIntersects(w, target, self)
    THEN Slowed(resolvePenetrationObstacles(w, target, self, KartStrength))
    ELSE w

\* TrafficCone.isColliding(target): two independent tests
TrafficConeIsColliding(w, self, target) == ConeBump(ConeHit(w, self, target), self, target)

\* Kart.removeProyectilFromList(index)
removeProyectilFromList(w, index) ==
    [w EXCEPT !.kart.proyectilesList = Splice1(@, index)]

\* Speed kept by a bounce, in tenths
Retention == 8
MaxBounces == 2

\* the owner forgets the shuriken at the index it had among its parent's children
Forget(w, self) ==
    IF w.ent[self].owner THEN removeProyectilFromList(w, IndexInParent(w, self)) ELSE w

\* the cone branch of Shuriken.isColliding
HitCone(w, self) ==
    addObjectToRemove(
        [(IF w.ent[self].parent # "none" THEN Detach(Forget(w, self), self)
                                         ELSE sceneRemove(w, self))
           EXCEPT !.hist[self].cones = @ + 1], self)

\* velocity = reflectedDir * speed * 0.8; bounces++
Bounce(w, self, reflectedDir, speed) ==
    [w EXCEPT !.ent[self].velocity = VScale(reflectedDir, speed * Retention, 10 * U),
              !.ent[self].bounces = @ + 1]

\* if (this.bounces > this.maxBounces) the shuriken leaves the scene and the registry
Spent(w, self) ==
    IF w.ent[self].bounces > MaxBounces
    THEN addObjectToRemove(sceneRemove(w, self), self)
    ELSE w

\* the wall branch of Shuriken.isColliding after resolvePenetrationProyectil
Rebound(w, self, target, speed) ==
    IF w.thrown THEN w
    ELSE Spent(Bounce(w, self, reflectDirection(w, self, target), speed), self)

\* Shuriken.isColliding(target)
ShurikenIsColliding(w, self, target) ==
    IF (KindOf(w, target) = "Cone" \/ (KindOf(w, target) = "Wall" /\ w.ent[self].launched))
       /\ aabbIntersects(w, self, target)
    THEN IF KindOf(w, target) = "Cone"
         THEN HitCone(w, self)
         ELSE Rebound(resolvePenetrationProyectil(w, self, target), self, target,
                      Length(w.ent[self].velocity))
    ELSE w

----------------------------------------------------------------------------
(* Kart (kart.ts): power-ups, boost *)

OriginalMaxSpeed == 300
BoostedMaxSpeed == 800
FalloffRate == 2
BoostMs == 3000

NewKart(id, pos) ==
    [ id                 |-> id,
      speed              |-> 0,
      maxSpeed           |-> OriginalMaxSpeed,
      boostActive        |-> FALSE,
      boostFalloff       |-> FALSE,
      boostEndTime       |-> 0,
      powerUps           |-> 0 - 1,
      isActivatePowerUps |-> FALSE,
      powerUpsList       |-> <<>>,     \* powerUpsList.children
      holderPos          |-> NoVec,    \* powerUpsList.position
      holderFacing       |-> 1,        \* powerUpsList.rotation.y: 1 for 0, -1 for pi
      holderWorld        |-> NoVec,    \* the translation of powerUpsList.matrixWorld
      holderWorldFacing  |-> 1,        \* the rotation of powerUpsList.matrixWorld
      proyectilesList    |-> <<>>,
      proyectilLaunched  |-> <<>> ]

KartPos(w) == w.ent[w.kart.id].pos

\* the object constructed last is placed, stored in proyectilesList and shown in the holder
Keep(w, pos, owner) ==
    holderAdd([w EXCEPT !.ent[LastId(w)].owner = owner,
                        !.ent[LastId(w)].pos = pos,
                        !.kart.proyectilesList = Append(@, LastId(w))],
              LastId(w))

\* the object constructed last is placed and shown in the holder
Show(w, pos) == holderAdd([w EXCEPT !.ent[LastId(w)].pos = pos], LastId(w))

\* new Shuriken(); parent = this; position set; stored and shown in the holder
HoldShuriken(w, pos) == Keep(ConstructProjectile(w, NewShuriken), pos, TRUE)

\* new Bomb(); position set; stored and shown in the holder
HoldBomb(w, pos) == Keep(ConstructProjectile(w, NewBomb), pos, FALSE)

\* new Coffee(); position set; shown in the holder
HoldCoffee(w, pos) == Show(ConstructCoffee(w), pos)

\* The local positions of the items of each power-up type, in construction
\* order. The code constructs all the instances of a type before it stores
\* and shows them; treating them one by one ends in the same lists.
ItemsOf(count) ==
    CASE count = 0 -> << <<0, 0, 0 - 3000>> >>
      [] count = 1 -> << <<0 - 3000, 0, 0>>, <<3000, 0, 0>> >>
      [] count = 2 -> << <<0, 0, 0 - 4000>>, <<3000, 0, 1000>>, <<0 - 3000, 0, 1000>> >>
      [] count = 3 -> << <<0, 500, 0 - 4000>> >>
      [] count = 4 -> << <<0, 0, 0 - 3000>> >>
      [] count = 5 -> << <<0 - 3000, 0, 0>>, <<3000, 0, 0>> >>
      [] count = 6 -> << <<0, 0, 0 - 4000>>, <<3000, 0, 1000>>, <<0 - 3000, 0, 1000>> >>
      [] OTHER     -> << >>

\* one item of the power-up type count
Hold(w, count, pos) ==
    IF count \in 0..2 THEN HoldShuriken(w, pos)
    ELSE IF count = 3 THEN HoldBomb(w, pos)
    ELSE HoldCoffee(w, pos)

RECURSIVE HoldAll(_, _, _, _)
HoldAll(w, count, items, k) ==
    IF k > Len(items) THEN w
    ELSE HoldAll(Hold(w, count, items[k]), count, items, k + 1)

\* if (children.length === 0 && isActivatePowerUps) isActivatePowerUps = false
Lapse(w) ==
    IF Len(w.kart.powerUpsList) = 0 /\ w.kart.isActivatePowerUps
    THEN [w EXCEPT !.kart.isActivatePowerUps = FALSE]
    ELSE w

\* a variant that grants whatever the kart holds
GrantAnyway(w, count) ==
    sceneAddHolder(HoldAll([w EXCEPT !.kart.powerUps = count,
                                     !.kart.isActivatePowerUps = TRUE,
                                     !.kart.holderPos = KartPos(w)],
                           count, ItemsOf(count), 1))

\* the body of setPowerUps when no power-up is active
Grant(w, count) ==
    IF ~w.kart.isActivatePowerUps
    THEN sceneAddHolder(HoldAll([w EXCEPT !.kart.powerUps = count,
                                          !.kart.isActivatePowerUps = TRUE,
                                          !.kart.holderPos = KartPos(w)],
                                count, ItemsOf(count), 1))
    ELSE w

\* Kart.setPowerUps(count)
setPowerUps(w, count) == Grant(Lapse(w), count)

\* Kart.activateSpeedBoost(now, durationMs)
activateSpeedBoost(w, now, durationMs) ==
    [w EXCEPT !.kart.boostActive = TRUE,
              !.kart.boostFalloff = FALSE,
              !.kart.maxSpeed = BoostedMaxSpeed,
              !.kart.boostEndTime = now + durationMs,
              !.kart.speed = IF @ < BoostedMaxSpeed THEN BoostedMaxSpeed ELSE @]

\* a variant that starts the falloff and leaves the boost active
ExpireHalf(k, nowMs) ==
    IF k.boostActive /\ nowMs >= k.boostEndTime
    THEN [k EXCEPT !.boostFalloff = TRUE]
    ELSE k

\* boost expired: start the falloff
Expire(k, nowMs) ==
    IF k.boostActive /\ nowMs >= k.boostEndTime
    THEN [k EXCEPT !.boostActive = FALSE, !.boostFalloff = TRUE]
    ELSE k

\* maxSpeed falls linearly back to the original, and the speed is clamped to it
Clamp(k) == IF k.speed > k.maxSpeed THEN [k EXCEPT !.speed = k.maxSpeed] ELSE k

Falloff(k) ==
    IF k.boostFalloff
    THEN Clamp([k EXCEPT !.maxSpeed = IF @ - FalloffRate <= OriginalMaxSpeed
                                      THEN OriginalMaxSpeed ELSE @ - FalloffRate,
                         !.boostFalloff = ~(k.maxSpeed - FalloffRate <= OriginalMaxSpeed)])
    ELSE k

\* Kart.updateBoost(nowMs)
updateBoost(w, nowMs) == [w EXCEPT !.kart = Falloff(Expire(@, nowMs))]

\* kart.rotation.y as createKart sets it (pi), and the kart's world direction
\* under it; the kart keeps the heading it is built with
KartFacing == 0 - 1
KartDirection == Turn(KartFacing, Forward)

\* (sin(rotation.y) * 5, 4, cos(rotation.y) * 5)
BombThrow == <<0, 4000, KartFacing * 5000>>
BombOffset == 2
ShurikenStep == 9

\* Shuriken.setVelocity(kart): spawn at the kart, fly along its direction
ShurikenSetVelocity(w, id) ==
    [w EXCEPT !.ent[id].pos = KartPos(w), !.ent[id].velocity = KartDirection]

\* Bomb.setDirection(kart), then Bomb.setVelocity(new Vector3(sin * 5, 4, cos * 5))
BombSetDirection(w, id) ==
    [w EXCEPT !.ent[id].pos = VAddScaled(KartPos(w), KartDirection, BombOffset, 1),
              !.ent[id].velocity = BombThrow]

\* powerUpsList.children.pop(): the mesh keeps its parent pointer
Pop(w) == [w EXCEPT !.kart.powerUpsList = SubSeq(@, 1, Len(@) - 1)]

\* setVelocity / setDirection and setLaunched(true) of the projectile
Aim(w, id) ==
    [(IF KindOf(w, id) = "Shuriken" THEN ShurikenSetVelocity(w, id)
                                    ELSE BombSetDirection(w, id))
       EXCEPT !.ent[id].launched = TRUE]

\* proyectilLaunched.push(proyectilesList.pop())
Hand(w) ==
    [w EXCEPT !.kart.proyectilLaunched =
                  Append(@, w.kart.proyectilesList[Len(w.kart.proyectilesList)]),
              !.kart.proyectilesList = SubSeq(@, 1, Len(@) - 1)]

\* cases 0..3: the popped mesh's instance is launched; no instance, and
\* proyectilesList[-1].addScene() throws
Launch(w, mesh) ==
    IF IndexOf(w.kart.proyectilesList, mesh) < 0 THEN Throw(w)
    ELSE Hand(Aim(sceneAdd(w, mesh), mesh))

\* the switch of launchPowerUps
Fire(w, now) ==
    IF w.kart.isActivatePowerUps /\ Len(w.kart.powerUpsList) > 0
    THEN IF w.kart.powerUps \in 0..3
         THEN Launch(Pop(w), w.kart.powerUpsList[Len(w.kart.powerUpsList)])
         ELSE IF w.kart.powerUps \in 4..6
         THEN activateSpeedBoost(Pop(w), now, BoostMs)
         ELSE w
    ELSE w

\* if the visual list is empty, the power-up state is reset
Spend(w) ==
    IF ~w.thrown /\ Len(w.kart.powerUpsList) = 0 /\ w.kart.isActivatePowerUps
    THEN [w EXCEPT !.kart.isActivatePowerUps = FALSE, !.kart.powerUps = 0 - 1]
    ELSE w

\* Kart.launchPowerUps(now): now stands for performance.now()
launchPowerUps(w, now) == Spend(Fire(w, now))

\* children.forEach(child => powerUpsList.remove(child)): the array shrinks
\* under the iteration, so the index skips the element that slid into place
RECURSIVE ForEachRemove(_, _)
ForEachRemove(w, k) ==
    IF k > Len(w.kart.powerUpsList) THEN w
    ELSE ForEachRemove(holderRemove(w, w.kart.powerUpsList[k]), k + 1)

\* Kart.clearPowerUps()
clearPowerUps(w) ==
    [ForEachRemove(w, 1) EXCEPT !.kart.proyectilesList = <<>>,
                                !.kart.isActivatePowerUps = FALSE,
                                !.kart.powerUps = 0 - 1]

\* one launched projectile advances: a bomb updates, a shuriken moves forward
Step(w, id, dt) ==
    IF KindOf(w, id) = "Bomb" THEN update(w, id, dt)
    ELSE [w EXCEPT !.ent[id].pos = VAddScaled(@, w.ent[id].velocity, ShurikenStep, 10)]

\* the loop of animatePowerUps over proyectilLaunched
RECURSIVE Advance(_, _, _)
Advance(w, k, dt) ==
    IF k > Len(w.kart.proyectilLaunched) THEN w
    ELSE Advance(Step(w, w.kart.proyectilLaunched[k], dt), k + 1, dt)

\* Kart.animatePowerUps(deltaTime): the holder takes the kart's rotation for
\* the power-up types 0, 3 and 4 (the slow spin of the other types is left
\* out) and the kart's position, then every launched projectile advances
animatePowerUps(w, dt) ==
    Advance([w EXCEPT !.kart.holderPos = KartPos(w),
                      !.kart.holderFacing = IF w.kart.powerUps \in {0, 3, 4}
                                            THEN KartFacing ELSE @],
            1, dt)

----------------------------------------------------------------------------
(* controls.ts: updateControls *)

Accel == 5
GodKeys == {"0", "1", "2", "3", "4", "5", "6"}

Digit(key) ==
    CASE key = "0" -> 0 [] key = "1" -> 1 [] key = "2" -> 2 [] key = "3" -> 3
      [] key = "4" -> 4 [] key = "5" -> 5 [] key = "6" -> 6

\* a variant that accelerates past the cap
ThrottleFree(k, key) ==
    IF key = "ArrowDown" THEN Max(QuotZ(0 - k.maxSpeed, 2), k.speed - Accel)
    ELSE IF key = "ArrowUp" THEN k.speed + Accel
    ELSE QuotZ(k.speed * 95, 100)

\* the speed after the acceleration keys: up, down, or friction
Throttle(k, key) ==
    IF key = "ArrowDown" THEN Max(QuotZ(0 - k.maxSpeed, 2), k.speed - Accel)
    ELSE IF key = "ArrowUp" THEN Min(k.maxSpeed, k.speed + Accel)
    ELSE QuotZ(k.speed * 95, 100)

\* the power-up keys: space launches, a digit is a god-mode key, "-" clears
PowerKeys(w, key, now) ==
    IF key = " " THEN launchPowerUps(w, now)
    ELSE IF key \in GodKeys THEN setPowerUps(w, Digit(key))
    ELSE IF key = "-" THEN clearPowerUps(w)
    ELSE w

\* kart.position.addScaledVector(direction, speed)
Drive(w) ==
    IF w.thrown THEN w
    ELSE [w EXCEPT !.ent[w.kart.id].pos = VAddScaled(@, KartDirection, w.kart.speed, U)]

\* updateControls() with one key held; a digit key is a god-mode key
updateControls(w, key, now) ==
    Drive(PowerKeys([w EXCEPT !.kart.speed = Throttle(w.kart, key)], key, now))

----------------------------------------------------------------------------
(* PowerUp (part_004) and the sweep (colliding.ts: checkCollision) *)

\* Math.round(Math.random() * 6)
Draws == 0..6

\* a variant that leaves the pickup registered
PowerUpStays(w, self, target, x) ==
    IF KindOf(w, target) = "Kart" /\ aabbIntersects(w, target, self)
    THEN sceneRemove(setPowerUps(w, x), self)
    ELSE w

\* a variant that schedules the kart along with the pickup
PowerUpTakesKart(w, self, target, x) ==
    IF KindOf(w, target) = "Kart" /\ aabbIntersects(w, target, self)
    THEN addObjectToRemove(addObjectToRemove(sceneRemove(setPowerUps(w, x), self), self), target)
    ELSE w

\* a variant that a kart with a power-up leaves alone
PowerUpSpared(w, self, target, x) ==
    IF KindOf(w, target) = "Kart" /\ aabbIntersects(w, target, self) /\ ~w.kart.isActivatePowerUps
    THEN addObjectToRemove(sceneRemove(setPowerUps(w, x), self), self)
    ELSE w

\* PowerUp.isColliding(object); x is the draw of setPowerUp()
PowerUpIsColliding(w, self, target, x) ==
    IF KindOf(w, target) = "Kart" /\ aabbIntersects(w, target, self)
    THEN addObjectToRemove(sceneRemove(setPowerUps(w, x), self), self)
    ELSE w

\* objA.isColliding(objB)
isColliding(w, a, b, x) ==
    CASE KindOf(w, a) = "Track"    -> RaceTrackIsColliding(w, a, b)
      [] KindOf(w, a) = "Wall"     -> WallsIsColliding(w, a, b)
      [] KindOf(w, a) = "Cone"     -> TrafficConeIsColliding(w, a, b)
      [] KindOf(w, a) = "PowerUp"  -> PowerUpIsColliding(w, a, b, x)
      [] KindOf(w, a) = "Shuriken" -> ShurikenIsColliding(w, a, b)
      [] KindOf(w, a) = "Bomb"     -> BombIsColliding(w, a, b)
      [] OTHER                     -> w

\* One entry of the sweep's log: the call and the registry as the call left it
Entry(a, b, w) ==
    [a |-> a, b |-> b, list |-> w.colisionObjects, pending |-> w.objectsRemove,
     thrown |-> w.thrown]

\* The most entries the list can have during a sweep that starts in w: every
\* registered pickup can make setPowerUps construct up to three projectiles
Room(w) ==
    Len(w.colisionObjects)
      + 3 * Cardinality({k \in 1..Len(w.colisionObjects) :
                            KindOf(w, w.colisionObjects[k]) = "PowerUp"})

\* the world a call left, and the call appended to the log
Logged(st, a, b, w) == [w |-> w, calls |-> Append(st.calls, Entry(a, b, w))]

\* objA.isColliding(objB) for the objects at indices i and j (1-based)
Call(st, i, j, x) ==
    Logged(st, st.w.colisionObjects[i], st.w.colisionObjects[j],
           isColliding(st.w, st.w.colisionObjects[i], st.w.colisionObjects[j], x))

\* a variant of the loop body without the Kart guard
VisitKartToo(st, p, m, x) ==
    LET n == Len(st.w.colisionObjects)
        i == ((p - 1) \div m) + 1
        j == ((p - 1) % m) + 1
    IN  IF st.w.thrown \/ i > n \/ j > n \/ i = j THEN st
        ELSE Call(st, i, j, x)

\* The body of the double loop at position p of the m x m grid of index pairs,
\* taken row by row: (i, j) is visited when both indices are inside the list
\* as it is then (both loops re-read its length), and the call is made unless
\* i = j or A is a Kart. After an exception nothing more is visited.
Visit(st, p, m, x) ==
    LET n == Len(st.w.colisionObjects)
        i == ((p - 1) \div m) + 1
        j == ((p - 1) % m) + 1
    IN  IF st.w.thrown \/ i > n \/ j > n THEN st
        ELSE IF i = j \/ KindOf(st.w, st.w.colisionObjects[i]) = "Kart" THEN st
        ELSE Call(st, i, j, x)

\* positions lo..hi in order
RECURSIVE Loop(_, _, _, _, _)
Loop(st, lo, hi, m, x) ==
    IF lo = hi THEN Visit(st, lo, m, x)
    ELSE LET mid == (lo + hi) \div 2
             left == Loop(st, lo, mid, m, x)
         IN  IF left.w.thrown THEN left ELSE Loop(left, mid + 1, hi, m, x)

\* removeSelectedObjects() after the loops, unless an exception ended them
Settle(st) == IF st.w.thrown THEN st ELSE [st EXCEPT !.w = removeSelectedObjects(@)]

\* the double loop over an m x m grid of index pairs
Loops(st, m, x) == IF m = 0 THEN st ELSE Loop(st, 1, m * m, m, x)

\* Colliding.checkCollision(): the world it leaves and the log of its calls;
\* an exception skips removeSelectedObjects
checkCollision(w, x) == Settle(Loops([w |-> w, calls |-> <<>>], Room(w), x))

----------------------------------------------------------------------------
(* Construction (main.ts): track, walls, kart, pickups, cones, in this order *)

Empty ==
    [ colisionObjects |-> <<>>, objectsRemove |-> {}, ent |-> <<>>,
      kart |-> NewKart(0, NoVec), scene |-> <<LightId>>, hist |-> <<>>,
      thrown |-> FALSE ]

\* a constructor that adds its body to the scene and registers itself
Build(w, rec) == Enrol(Construct(w, [rec EXCEPT !.parent = "none"]))

\* createKart(): new Kart() puts the body at (0, 0.6, -3), setZ(25) moves it
KartStart == <<0, 600, 25000>>

\* the object constructed last is the kart
AsKart(w) == [w EXCEPT !.kart.id = LastId(w)]

\* createKart(): new Kart(), setZ(25), setRotation(0, pi, 0)
NewKartBody == [Obj("Kart", KartStart) EXCEPT !.normal = KartDirection]

BuildKart(w) == AsKart(Build(w, NewKartBody))

RECURSIVE BuildAll(_, _, _)
BuildAll(w, recs, k) ==
    IF k > Len(recs) THEN w
    ELSE BuildAll(IF recs[k].kind = "Kart" THEN BuildKart(w) ELSE Build(w, recs[k]),
                  recs, k + 1)

\* The world of the state
World ==
    [ colisionObjects |-> colisionObjects, objectsRemove |-> objectsRemove, ent |-> ent,
      kart |-> kart, scene |-> scene, hist |-> hist, thrown |-> FALSE ]

\* the state holds world w
Holds(w) ==
    /\ colisionObjects = w.colisionObjects
    /\ objectsRemove = w.objectsRemove
    /\ ent = w.ent
    /\ kart = w.kart
    /\ scene = w.scene
    /\ hist = w.hist

Becomes(w, next) ==
    /\ colisionObjects' = w.colisionObjects
    /\ objectsRemove' = w.objectsRemove
    /\ ent' = w.ent
    /\ kart' = w.kart
    /\ scene' = w.scene
    /\ hist' = w.hist
    /\ pc' = IF w.thrown THEN "crashed" ELSE next

----------------------------------------------------------------------------
(* animation.ts: animate(now) *)

FrameMs == 16

\* what a frame leaves: the world, the log of its sweep, the list the sweep found
Record(st, start) == [w |-> st.w, calls |-> st.calls, start |-> start]

\* collisionObserver.checkCollision() in world w
SweepOf(w, x) == Record(checkCollision(w, x), w.colisionObjects)

\* kart.animatePowerUps(deltaTime), reached unless updateControls threw
Powered(w, dt) == IF w.thrown THEN w ELSE animatePowerUps(w, dt)

\* no sweep after a throw: the log still shows the latest sweep
NoSweep(w) == [w |-> w, calls |-> calls, start |-> sweepStart]

\* the frame after updateControls
Rest(w, dt, x) == IF w.thrown THEN NoSweep(w) ELSE SweepOf(animatePowerUps(w, dt), x)

\* scene.updateMatrixWorld(true): the holder's matrixWorld follows its
\* position and rotation once the holder is a child of the scene
updateMatrixWorld(w) ==
    IF HolderId \in SeqToSet(w.scene)
    THEN [w EXCEPT !.kart.holderWorld = w.kart.holderPos,
                   !.kart.holderWorldFacing = w.kart.holderFacing]
    ELSE w

\* animate(now) up to the call of kart.animatePowerUps
Controls(w, now, key) == updateControls(updateBoost(updateMatrixWorld(w), now), key, now)

\* animate(now) up to and including checkCollision, with deltaTime dt fed to
\* animatePowerUps (animate itself leaves it at the default, FrameMs); a throw
\* anywhere ends the frame where it happens
animate(w, now, key, dt, x) == Rest(Controls(w, now, key), dt, x)

\* The draws that matter in a frame that starts in w: all of them when a
\* registered pickup is within the kart's reach, otherwise the draw is unused
Reach == <<BoostedMaxSpeed, BoostedMaxSpeed, BoostedMaxSpeed>>

Grown(b) == [lo |-> VSub(b.lo, Reach), hi |-> VAdd(b.hi, Reach)]

InReach(w, id) == IntersectsBox(Grown(WorldAABB(w, w.kart.id)), WorldAABB(w, id))

DrawsFor(w) ==
    IF \E k \in 1..Len(w.colisionObjects) :
           KindOf(w, w.colisionObjects[k]) = "PowerUp" /\ InReach(w, w.colisionObjects[k])
    THEN Draws
    ELSE {0}

\* the state takes what a frame left
Lands(r) ==
    /\ Becomes(r.w, "running")
    /\ calls' = r.calls
    /\ sweepStart' = r.start

\* One frame of the game: requestAnimationFrame calls animate while the loop
\* is alive; limit bounds the number of frames
Frame(key, dt, x, limit) ==
    /\ pc = "running"
    /\ frames < limit
    /\ Lands(animate(World, FrameMs * (frames + 1), key, dt, x))
    /\ frames' = frames + 1

\* One tick of the registry alone: a call of checkCollision()
Tick(x, limit) ==
    /\ pc = "running"
    /\ frames < limit
    /\ Lands(SweepOf(World, x))
    /\ frames' = frames + 1

\* A frame in two steps. Input: animate(now) up to the call of checkCollision
Input(key, dt, limit) ==
    /\ pc = "running"
    /\ frames < limit
    /\ Becomes(Powered(Controls(World, FrameMs * (frames + 1), key), dt), "sweep")
    /\ UNCHANGED <<calls, sweepStart, frames>>

\* Sweep: the call of checkCollision that ends the frame
Sweep(x) ==
    /\ pc = "sweep"
    /\ Lands(SweepOf(World, x))
    /\ frames' = frames + 1

----------------------------------------------------------------------------
(* The game from construction *)

\* a short wall across the kart's line of fire, facing +X
SideWall == NewWall(<<0, 0, 22100>>, <<U, 0, 0>>, <<25, 1000, 500>>)

\* a wall of the default size facing +Z, at depth z
FrontWall(z) == NewWall(<<0, 0, z>>, Forward, <<5000, 1000, 25>>)

\* the pickup under the kart or far from it; the cone where a held shuriken
\* sits behind the kart, or far from it
FrontWallDepths == {21400, 60000}
PickupSpots == {<<0, 500, 25000>>, <<60000, 500, 60000>>}
ConeSpots == {<<0, 550, 28000>>, <<0 - 60000, 550, 60000>>}

Layout(wallZ, pickup, cone) ==
    << Obj("Track", NoVec), SideWall, FrontWall(wallZ), Obj("Kart", KartStart),
       Obj("PowerUp", pickup), Obj("Cone", cone) >>

Start(w) ==
    /\ Holds(w)
    /\ pc = "running"
    /\ calls = <<>>
    /\ sweepStart = w.colisionObjects
    /\ frames = 0

Init ==
    \E wallZ \in FrontWallDepths, pickup \in PickupSpots, cone \in ConeSpots :
        Start(BuildAll(Empty, Layout(wallZ, pickup, cone), 1))

\* the keys pressed in the game specification, with god mode switched on; the
\* kart stays where it is built
GameKeys == {"none", " ", "-", "0", "3"}

Next ==
    \E key \in GameKeys, x \in DrawsFor(World) : Frame(key, FrameMs, x, MaxFrames)

Spec == Init /\ [][Next]_vars

----------------------------------------------------------------------------
(* A shuriken in flight against one wall *)

WallCentre == <<4000, 0, 4000>>
WallNormals == {<<0, 0, U>>, <<0, 0, 0 - U>>, <<U, 0, 0>>, <<0 - U, 0, 0>>}

\* a wall of the default size with the given facing
WallFacing(n) ==
    NewWall(WallCentre, n, IF n[1] = 0 THEN <<5000, 1000, 25>> ELSE <<25, 1000, 5000>>)

\* velocities whose bounces stay on the integer grid
Velocities ==
    { <<0, 0, 0 - 5000>>, <<0, 0, 5000>>, <<5000, 0, 0>>, <<0 - 5000, 0, 0>>,
      <<0, 0, 0 - 1000>>, <<0, 0, 1000>>, <<1000, 0, 0>>, <<0 - 1000, 0, 0>>,
      <<3000, 0, 0 - 4000>>, <<0 - 3000, 0, 4000>>, <<4000, 0, 3000>>, <<0 - 4000, 0, 0 - 3000>>,
      <<750, 0, 0 - 1000>>, <<0 - 1000, 0, 750>> }

\* how far in front of the wall's centre plane the shuriken is, along the normal
Offsets == {0 - 300, 0, 300}

\* the projectile constructed last is put at pos with velocity v
Put(w, v, pos) == [w EXCEPT !.ent[LastId(w)].velocity = v, !.ent[LastId(w)].pos = pos]

\* the kart was given one shuriken and launched it; the shuriken is now in
\* flight with velocity v, off units in front of the wall
InFlight(n, v, off) ==
    Put(launchPowerUps(setPowerUps(BuildAll(Empty, <<WallFacing(n), Obj("Kart", KartStart)>>, 1),
                                   0), 0),
        v, VAddScaled(<<WallCentre[1], KartStart[2], WallCentre[3]>>, n, off, U))

InitBounce ==
    \E n \in WallNormals, v \in Velocities, off \in Offsets : Start(InFlight(n, v, off))

NextBounce == Tick(0, MaxFrames)

SpecBounce == InitBounce /\ [][NextBounce]_vars

----------------------------------------------------------------------------
(* A small course, each frame taken in two steps *)

CourseKeys == {"none", " ", "0"}

InitCourse ==
    \E wallZ \in FrontWallDepths, cone \in ConeSpots :
        Start(BuildAll(Empty, <<SideWall, FrontWall(wallZ), Obj("Kart", KartStart),
                                Obj("Cone", cone)>>, 1))

NextCourse ==
    \/ \E key \in CourseKeys : Input(key, FrameMs, MaxFrames)
    \/ Sweep(0)

SpecCourse == InitCourse /\ [][NextCourse]_vars

----------------------------------------------------------------------------
(* The life of a thrown bomb *)

OffTrack == <<90000, 600, 25000>>

\* the deltaTime values fed to animatePowerUps(deltaTime): its default of 16 ms,
\* which animate uses, one second and the whole fuse
Deltas == {16, 1000, 3000}

\* the kart is moved to spot
KartAt(w, spot) == [w EXCEPT !.ent[w.kart.id].pos = spot]

\* the kart, at the given spot, was given a bomb and has thrown it
Thrown(spot, walls) ==
    launchPowerUps(
        setPowerUps(KartAt(BuildKart(BuildAll(Empty, <<Obj("Track", NoVec)>> \o walls, 1)),
                           spot), 3), 0)

InitBomb ==
    \E spot \in {KartStart, OffTrack}, walls \in {<<SideWall>>, <<FrontWall(60000)>>} :
        Start(Thrown(spot, walls))

NextBomb == \E dt \in Deltas : Frame("none", dt, 0, MaxUpdates)

SpecBomb == InitBomb /\ [][NextBomb]_vars

----------------------------------------------------------------------------
(* A bomb over the track, next to a cone, each frame taken in two steps *)

\* where the thrown bomb is: where launchPowerUps puts it, with its box over
\* the side wall's; near the end of its arc, about to touch the track, about
\* to come down on a cone, and still high above the track
BombSpots == {<<0, 600, 23000>>, <<0, 550, 9350>>, <<0, 1600, 9350>>, <<0, 3000, 9350>>}

\* the velocity of the thrown bomb near the end of its arc
Descent == <<0, 0 - 4000, 0 - 5000>>

\* the cone just ahead of where the bomb lands, where it comes down, or where
\* the kart holds a bomb before the throw
RangeCones == {<<0, 550, 8500>>, <<0, 550, 9270>>, <<0, 550, 29000>>}

\* the kart, on a track with a side wall and a cone, was given a bomb
Given(cone) ==
    setPowerUps(BuildKart(BuildAll(Empty, <<Obj("Track", NoVec), SideWall, Obj("Cone", cone)>>, 1)),
                3)

\* the bomb was thrown and has flown to pos
Falling(cone, pos) == Put(launchPowerUps(Given(cone), 0), Descent, pos)

\* the projectile constructed last has not reached a cone yet
Clear(w) ==
    \A c \in 1..Len(w.ent) : KindOf(w, c) = "Cone" => ~aabbIntersects(w, c, LastId(w))

InitRange ==
    \/ \E cone \in RangeCones : Start(Given(cone))
    \/ \E cone \in RangeCones, pos \in BombSpots :
          Clear(Falling(cone, pos)) /\ Start(Falling(cone, pos))

NextRange ==
    \/ Input("none", FrameMs, MaxFrames)
    \/ Sweep(0)

SpecRange == InitRange /\ [][NextRange]_vars

----------------------------------------------------------------------------
(* The kart and what it holds, next to a cone, each frame in two steps *)

\* space launches, "-" clears, "0" gives one shuriken and "1" two (god mode)
HoldKeys == {"none", " ", "-", "0", "1"}

\* the cone beside the kart, where one of two held shurikens sits, or behind
\* it, its box touching the box of a single held shuriken on a face
HeldCones == {<<0 - 3000, 550, 25000>>, <<900, 550, 28000>>}

InitHold ==
    \E cone \in HeldCones :
        Start(BuildAll(Empty, <<Obj("Kart", KartStart), Obj("Cone", cone)>>, 1))

NextHold ==
    \/ \E key \in HoldKeys : Input(key, FrameMs, MaxFrames)
    \/ Sweep(0)

SpecHold == InitHold /\ [][NextHold]_vars

----------------------------------------------------------------------------
(* The kart against one wall *)

\* where the kart is, along the wall's normal from the wall's centre plane:
\* behind the wall, in front of it (its box over the wall both times), or clear of it
KartOffsets == {0 - 1500, 1500, 4000}

\* kart.speed when the sweep runs: forward, reverse, at the boosted maximum, at rest
Speeds == {200, 0 - 100, BoostedMaxSpeed, 0}

\* the kart has driven to off units from the wall facing n and moves at speed
Driving(n, off, speed) ==
    [KartAt(BuildAll(Empty, <<WallFacing(n), Obj("Kart", KartStart)>>, 1),
            VAddScaled(<<WallCentre[1], KartStart[2], WallCentre[3]>>, n, off, U))
       EXCEPT !.kart.speed = speed]

InitDrive ==
    \E n \in WallNormals, off \in KartOffsets, speed \in Speeds : Start(Driving(n, off, speed))

NextDrive == Tick(0, MaxFrames)

SpecDrive == InitDrive /\ [][NextDrive]_vars

----------------------------------------------------------------------------
(* The kart driven towards a wall, past a cone, each frame in two steps *)

\* accelerate, brake, take a coffee (god mode), drink it, or coast
RoadKeys == {"none", "ArrowUp", "ArrowDown", "4", " "}

\* a cone under the kart's own position, one under its front left corner,
\* and one out of its way
RoadCones == {<<0, 550, 25000>>, <<1500, 550, 24000>>, <<60000, 550, 60000>>}

\* the wall across the road, just ahead of the kart's nose
RoadWall == FrontWall(22600)

\* the speed the kart has picked up on its way here
RoadSpeeds == {0, 100, OriginalMaxSpeed}

OnRoad(cone, speed) ==
    [BuildAll(Empty, <<Obj("Track", NoVec), RoadWall, Obj("Kart", KartStart), Obj("Cone", cone)>>, 1)
       EXCEPT !.kart.speed = speed]

InitRoad == \E cone \in RoadCones, speed \in RoadSpeeds : Start(OnRoad(cone, speed))

NextRoad ==
    \/ \E key \in RoadKeys : Input(key, FrameMs, MaxFrames)
    \/ Sweep(0)

SpecRoad == InitRoad /\ [][NextRoad]_vars

----------------------------------------------------------------------------
(* The kart on the road with a coffee, its frames a boost's length apart *)

LateKeys == {"none", "ArrowUp", "ArrowDown", " "}

\* the wall just ahead of the kart's nose, or two frames of boost away
LateWalls == {RoadWall, FrontWall(21000)}

OnLateRoad(wall, cone, speed) ==
    [BuildAll(Empty, <<Obj("Track", NoVec), wall, Obj("Kart", KartStart), Obj("Cone", cone)>>, 1)
       EXCEPT !.kart.speed = speed]

InitLate ==
    \E wall \in LateWalls, cone \in RoadCones, speed \in RoadSpeeds :
        Start(setPowerUps(OnLateRoad(wall, cone, speed), 4))

\* animate(now) up to the call of checkCollision, BoostMs after the frame
\* before: requestAnimationFrame calls no frame while the page is hidden
Late(key) ==
    /\ pc = "running"
    /\ frames < MaxFrames
    /\ Becomes(Powered(Controls(World, BoostMs * (frames + 1), key), FrameMs), "sweep")
    /\ UNCHANGED <<calls, sweepStart, frames>>

NextLate ==
    \/ \E key \in LateKeys : Late(key)
    \/ Sweep(0)

SpecLate == InitLate /\ [][NextLate]_vars

----------------------------------------------------------------------------
(* The kart and a pickup, each frame in two steps *)

PickupKeys == {"none", "ArrowUp", " ", "0", "3"}

\* the pickup under the kart, or two frames ahead of a kart at full speed
PickupsAhead == {<<0, 500, 25000>>, <<0, 500, 21400>>}

OnPickup(pickup, speed) ==
    [BuildAll(Empty, <<Obj("Track", NoVec), Obj("Kart", KartStart), Obj("PowerUp", pickup)>>, 1)
       EXCEPT !.kart.speed = speed]

InitPickup ==
    \E pickup \in PickupsAhead, speed \in {0, OriginalMaxSpeed} : Start(OnPickup(pickup, speed))

NextPickup ==
    \/ \E key \in PickupKeys : Input(key, FrameMs, MaxFrames)
    \/ \E x \in DrawsFor(World) : Sweep(x)

SpecPickup == InitPickup /\ [][NextPickup]_vars

----------------------------------------------------------------------------
(* Launched projectiles after they have left the registry *)

MaxSpentFrames == 40    \* calls of animatePowerUps after the projectile has left

\* the game played from w: frame k with key keys[k] and deltaTime dts[k]
RECURSIVE Played(_, _, _, _)
Played(w, keys, dts, k) ==
    IF k > Len(keys) THEN w
    ELSE Played(animate(w, FrameMs * k, keys[k], dts[k], 0).w, keys, dts, k + 1)

\* a shuriken is given, launched and bounces three times off the side wall, with
\* a cone out of the way
BouncedOut ==
    Played(BuildAll(Empty, <<SideWall, FrontWall(60000), Obj("Kart", KartStart),
                             Obj("Cone", <<0 - 60000, 550, 60000>>)>>, 1),
           <<"0", " ", "none", "none", "none">>, <<FrameMs, FrameMs, FrameMs, FrameMs, FrameMs>>, 1)

\* a shuriken is given and launched at a cone under the kart's nose
ConeStruck ==
    Played(BuildAll(Empty, <<Obj("Kart", KartStart), Obj("Cone", <<0, 550, 24100>>)>>, 1),
           <<"0", " ">>, <<FrameMs, FrameMs>>, 1)

\* a thrown bomb explodes on the side wall, grows and is cleaned up
CleanedUp ==
    Played(Thrown(KartStart, <<SideWall>>),
           <<"none", "none", "none", "none">>, <<FrameMs, FuseTime, FuseTime, FrameMs>>, 1)

SpentWorlds == {BouncedOut, ConeStruck, CleanedUp}

InitSpent == \E w \in SpentWorlds : Start(w)

\* animate calls kart.animatePowerUps()
Animate ==
    /\ pc = "running"
    /\ frames < MaxSpentFrames
    /\ Becomes(animatePowerUps(World, FrameMs), "running")
    /\ frames' = frames + 1
    /\ UNCHANGED <<calls, sweepStart>>

NextSpent == Animate

SpecSpent == InitSpent /\ [][NextSpent]_vars

\* requestAnimationFrame keeps calling animate, and animate animatePowerUps
SpecSpentLive == SpecSpent /\ WF_vars(Animate)

----------------------------------------------------------------------------
(* The kart and its two coffees: a boost, its end and the falloff *)

MaxBoostFrames == 650   \* calls of updateBoost, enough for two boosts to end and fall off

\* the frames in which space is pressed: at the start, and when the first
\* boost has ended and is falling off
DrinkFrames == {0, 1, 190, 191}

\* the time animate passes on in the frame that is running
Now == FrameMs * (frames + 1)

\* the kart was given two coffees
InitBoost ==
    Start(setPowerUps(BuildAll(Empty, <<Obj("Track", NoVec), Obj("Kart", KartStart)>>, 1), 5))

\* space: launchPowerUps drinks a coffee, which activates the boost
Drink ==
    /\ frames \in DrinkFrames
    /\ kart.powerUpsList # <<>>
    /\ Becomes(launchPowerUps(World, Now), "running")
    /\ UNCHANGED <<calls, sweepStart, frames>>

\* animate calls kart.updateBoost(now)
Update ==
    /\ frames < MaxBoostFrames
    /\ Becomes(updateBoost(World, Now), "running")
    /\ frames' = frames + 1
    /\ UNCHANGED <<calls, sweepStart>>

NextBoost == Drink \/ Update

SpecBoost == InitBoost /\ [][NextBoost]_vars

\* requestAnimationFrame keeps calling animate, and animate updateBoost
SpecBoostLive == SpecBoost /\ WF_vars(Update)

----------------------------------------------------------------------------
(* Properties of the registry's sweep *)

Ids == 1..Len(ent)
Registered == SeqToSet(colisionObjects)
IsPrefix(s, t) == Len(s) <= Len(t) /\ SubSeq(t, 1, Len(s)) = s

\* the list as call k of the latest sweep found it
ListBefore(k) == IF k = 1 THEN sweepStart ELSE calls[k - 1].list

\* objects whose removal was pending after call k but not before it
Requested(k) == calls[k].pending \ (IF k = 1 THEN {} ELSE calls[k - 1].pending)

\* C1: removal is deferred. A request made during the sweep leaves the list
\* as it is (nothing leaves it or moves in it while the loop runs, and every
\* object with a pending request is still listed); addObjectToRemove itself
\* never touches the list; and when checkCollision has returned, the pending
\* set is empty and every object requested in that sweep is off the list.
C1_DeferredRemoval ==
    /\ \A k \in 1..Len(calls) :
          /\ IsPrefix(ListBefore(k), calls[k].list)
          /\ calls[k].pending \subseteq SeqToSet(calls[k].list)
    /\ \A e \in Ids : addObjectToRemove(World, e).colisionObjects = colisionObjects
    /\ pc = "running" =>
          /\ objectsRemove = {}
          /\ \A k \in 1..Len(calls) : calls[k].pending \cap Registered = {}

\* a request was made with calls still to come, the object was still listed
\* when the loop ended, and the sweep has returned with the object off the list
C1_Witness ==
    /\ pc = "running"
    /\ \E k \in 1..Len(calls) :
          /\ Requested(k) # {}
          /\ k < Len(calls)
          /\ Requested(k) \subseteq SeqToSet(calls[Len(calls)].list)
          /\ Requested(k) \cap Registered = {}

\* C2: no call of a sweep changes the membership of the active list
C2_NoMutationMidSweep ==
    \A k \in 1..Len(calls) : calls[k].list = sweepStart

\* C3: isColliding is never invoked on a Kart; a Kart is only ever the
\* candidate B
C3_KartNeverInitiates ==
    \A k \in 1..Len(calls) : ent[calls[k].a].kind # "Kart"

\* a sweep over a list holding the kart passed the kart as candidate
C3_Witness ==
    /\ \E k \in 1..Len(sweepStart) : ent[sweepStart[k]].kind = "Kart"
    /\ \E k \in 1..Len(calls) : ent[calls[k].b].kind = "Kart"

\* the pairs (A, B) of a list, A not a Kart, B # A, row by row
PairsOf(list) ==
    LET n == Len(list)
        ok(p) == LET a == ((p - 1) \div n) + 1
                     b == ((p - 1) % n) + 1
                 IN  a # b /\ ent[list[a]].kind # "Kart"
        RECURSIVE From(_)
        From(p) == IF p > n * n THEN <<>>
                   ELSE IF ok(p)
                        THEN <<<<list[((p - 1) \div n) + 1], list[((p - 1) % n) + 1]>>>> \o From(p + 1)
                        ELSE From(p + 1)
    IN  IF n = 0 THEN <<>> ELSE From(1)

\* the calls of the latest sweep between objects the sweep found in the list
CallsAmong(list) ==
    LET S == SeqToSet(list)
    IN  SelectSeq([k \in 1..Len(calls) |-> <<calls[k].a, calls[k].b>>],
                  LAMBDA c : c[1] \in S /\ c[2] \in S)

\* C4: in a sweep, every pair (A, B) of the list, A not a Kart and B # A, is
\* tested exactly once, rows in registration order and each row in
\* registration order
C4_EachPairOnceInOrder ==
    frames > 0 => CallsAmong(sweepStart) = PairsOf(sweepStart)

----------------------------------------------------------------------------
(* Properties of the shuriken *)

Shurikens == {s \in Ids : ent[s].kind = "Shuriken"}
WallsOf == {b \in Ids : ent[b].kind = "Wall"}

\* C9: a launched shuriken is taken out on its 3rd bounce and not before: its
\* counter never exceeds 3, with 3 bounces it is out of the scene and off the
\* active list, and with fewer (and no cone met) it is still in both
C9_RemovedOnThirdBounce ==
    \A s \in Shurikens :
        /\ ent[s].bounces <= 3
        /\ ent[s].bounces >= 3 => s \notin Registered /\ ent[s].parent = "none"
        /\ ent[s].launched /\ ent[s].bounces < 3 /\ hist[s].cones = 0 =>
              s \in Registered /\ ent[s].parent = "scene"

\* one bounce on a wall facing n, computed on the components: 0.8 times the
\* velocity with its component along n reversed
Bounced(v, n) ==
    LET d == (v[1] * n[1] + v[2] * n[2] + v[3] * n[3]) \div U
    IN  [k \in 1..3 |-> (8 * (v[k] - 2 * d * (n[k] \div U))) \div 10]

HitsWall(s, b) ==
    /\ s \in Registered
    /\ b \in Registered
    /\ ent[s].launched
    /\ aabbIntersects(World, s, b)

\* C10: a tick in which a launched shuriken overlaps a wall adds one bounce
\* and leaves the velocity at 0.8 times the old one with the component along
\* the wall's normal reversed and the tangential one kept; (0,0,-5) against
\* the normal (0,0,1) becomes (0,0,4) with the counter going from 0 to 1
C10_Bounce ==
    [][\A s \in Shurikens, b \in WallsOf :
          HitsWall(s, b) =>
             /\ ent'[s].bounces = ent[s].bounces + 1
             /\ \A k \in 1..3 : ent'[s].velocity[k] = Bounced(ent[s].velocity, ent[b].normal)[k]
             /\ (ent[s].velocity = <<0, 0, 0 - 5000>> /\ ent[b].normal = <<0, 0, U>>
                   /\ ent[s].bounces = 0)
                  => ent'[s].velocity = <<0, 0, 4000>> /\ ent'[s].bounces = 1]_vars

\* the shuriken that flew at (0,0,-5) into the wall facing (0,0,1) has bounced once
C10_Witness ==
    \E s \in Shurikens, b \in WallsOf :
        /\ ent[b].normal = <<0, 0, U>>
        /\ ent[s].velocity = <<0, 0, 4000>>
        /\ ent[s].bounces = 1
        /\ frames = 1

----------------------------------------------------------------------------
(* Properties of the bomb *)

Bombs == {b \in Ids : ent[b].kind = "Bomb"}
Tracks == {t \in Ids : ent[t].kind = "Track"}

\* the worlds one trigger of bomb b's explosion can leave: the fuse running
\* out, Bomb.isColliding with any other registered object, RaceTrack.isColliding
Triggers(w, b) ==
    {explode(w, b)}
      \cup {BombIsColliding(w, b, o) : o \in SeqToSet(w.colisionObjects) \ {b}}
      \cup {RaceTrackIsColliding(w, t, b) : t \in Tracks}

\* what a trigger may change: the bomb's fields, the scene, the registry
BombState(w, b) ==
    [fields |-> w.ent[b], scene |-> w.scene, list |-> w.colisionObjects,
     pending |-> w.objectsRemove]

\* C6: explode is idempotent. Any trigger that follows a trigger which left
\* the bomb exploded changes nothing, and a trigger on a bomb that exploded
\* in an earlier tick leaves explosionElapsed, cleanupScheduled, the scale
\* and the material as they are
C6_ExplodeIdempotent ==
    \A b \in Bombs :
        /\ \A w1 \in Triggers(World, b) :
              w1.ent[b].exploded =>
                 \A w2 \in Triggers(w1, b) : BombState(w2, b) = BombState(w1, b)
        /\ ent[b].exploded =>
              \A w1 \in Triggers(World, b) : BombState(w1, b) = BombState(World, b)

\* a bomb that is growing was triggered again by a collision handler
C6_Witness ==
    \E b \in Bombs :
        /\ ent[b].exploded
        /\ ent[b].explosionElapsed > 0
        /\ ent[b].scale > ExplosionStartScale
        /\ ent[b].material = "lava"
        /\ hist[b].hits >= 2
        /\ hist[b].explodes >= 2

\* Armed, Exploding, Removed
Phase(e) == IF ~e.exploded THEN 0 ELSE IF ~e.cleanupScheduled THEN 1 ELSE 2

\* C7: a bomb only moves forward through Armed, Exploding, Removed. The
\* cleanup step has run once exactly when the bomb is Removed and never
\* twice; exploded never goes back to false; and an update call that finds
\* the growth over leaves the cleanup done
C7_ForwardOnly ==
    /\ [](\A b \in Bombs :
             /\ hist[b].cleanups <= 1
             /\ (hist[b].cleanups = 1) <=> (Phase(ent[b]) = 2)
             /\ Phase(ent[b]) = 2 =>
                    ent[b].parent = "none" /\ (pc = "running" => b \notin Registered))
    /\ [][\A b \in Bombs :
             /\ Phase(ent'[b]) >= Phase(ent[b])
             /\ ent[b].exploded => ent'[b].exploded
             /\ (ent[b].exploded /\ ent[b].explosionElapsed >= ExplosionDuration
                   /\ hist'[b].updates > hist[b].updates)
                  => hist'[b].cleanups = 1]_vars

\* a bomb that was cleaned up has been updated again and triggered after that
C7_Witness ==
    \E b \in Bombs :
        /\ hist[b].cleanups = 1
        /\ ent[b].cleanupScheduled
        /\ b \notin Registered
        /\ ent[b].explosionElapsed >= ExplosionDuration
        /\ hist[b].updates >= 6

\* C8: a launched bomb that no collision handler has triggered is Armed
\* while update has been fed less than the 3 s of the fuse, and exploded as
\* soon as it has been fed 3 s
C8_Fuse ==
    \A b \in Bombs :
        (ent[b].launched /\ hist[b].hits = 0) =>
            (ent[b].exploded <=> hist[b].fed >= FuseTime)

\* three updates of one second each: the bomb exploded at the third
C8_Witness ==
    \E b \in Bombs :
        /\ hist[b].hits = 0
        /\ hist[b].updates = 3
        /\ hist[b].fed = FuseTime
        /\ ent[b].exploded
        /\ ent[b].explosionElapsed = 0

----------------------------------------------------------------------------
(* Order of registration *)

\* the world of the state with its active list permuted by f
Permuted(f) ==
    [World EXCEPT !.colisionObjects = [k \in 1..Len(colisionObjects) |-> colisionObjects[f[k]]]]

\* what a tick leaves, as far as the claim compares it
Outcome(w) ==
    [ active    |-> SeqToSet(w.colisionObjects),
      speed     |-> w.kart.speed,
      shurikens |-> [s \in Shurikens |-> <<w.ent[s].bounces, w.ent[s].velocity>>],
      bombs     |-> [b \in Bombs |-> w.ent[b].exploded] ]

\* two completed sweeps left the same outcome
SameOutcome(w1, w2) == (~w1.thrown /\ ~w2.thrown) => Outcome(w1) = Outcome(w2)

\* C5: the outcome of a tick does not depend on the registration order:
\* the sweep of every permutation of the active list, when it completes,
\* leaves the survivors, the kart's speed, the shurikens' bounces and
\* velocities and the bombs' exploded flags that the sweep of the list
\* itself leaves
C5_OrderIndependent ==
    pc = "sweep" =>
        \A f \in Permutations(1..Len(colisionObjects)) :
            SameOutcome(checkCollision(Permuted(f), 0).w, checkCollision(World, 0).w)

----------------------------------------------------------------------------
(* Properties of the kart against walls *)

TheKart == kart.id

\* the wall's facing normal, turned to the side of the wall the kart is on
Outward(b) ==
    IF Dot(VSub(ent[TheKart].pos, ent[b].pos), ent[b].normal) >= 0
    THEN ent[b].normal
    ELSE VNeg(ent[b].normal)

KartOnWall(b) ==
    /\ TheKart \in Registered
    /\ b \in Registered
    /\ aabbIntersects(World, TheKart, b)

\* C11: a tick in which the kart's box overlaps a wall's box halves the
\* kart's speed and moves the kart by 0.01 along the wall's facing normal,
\* outward: away from the wall on whichever side of it the kart is
C11_WallPush ==
    [][\A b \in WallsOf :
          KartOnWall(b) =>
             /\ 2 * kart'.speed \in (kart.speed - 1)..(kart.speed + 1)
             /\ ent'[TheKart].pos = VAddScaled(ent[TheKart].pos, Outward(b), KartStrength, U)]_vars

----------------------------------------------------------------------------
(* Properties of the pickups *)

PowerUps == {p \in Ids : ent[p].kind = "PowerUp"}

\* C12: a tick in which a registered pickup overlaps the kart leaves the
\* pickup off the active list and the kart holding a power-up
\* (isActivatePowerUps true, type in 0..6), whatever the pickup draws
C12_PickupCollected ==
    [][\A p \in PowerUps :
          (p \in Registered /\ aabbIntersects(World, TheKart, p)) =>
             /\ p \notin SeqToSet(colisionObjects')
             /\ kart'.isActivatePowerUps
             /\ kart'.powerUps \in 0..6]_vars

\* the pickup under the kart was collected with a draw of 6: three coffees
C12_Witness ==
    \E p \in PowerUps :
        /\ p \notin Registered
        /\ ent[p].parent = "none"
        /\ \E k \in 1..Len(calls) : calls[k].a = p /\ calls[k].b = TheKart
        /\ kart.isActivatePowerUps
        /\ kart.powerUps = 6
        /\ Len(kart.powerUpsList) = 3

----------------------------------------------------------------------------
(* Properties of cones and projectiles *)

Cones == {c \in Ids : ent[c].kind = "Cone"}

\* a registered shuriken, or a registered launched bomb, whose box is over cone c's
Strikes(s, c) ==
    /\ s \in Registered
    /\ ent[s].kind = "Shuriken" \/ (ent[s].kind = "Bomb" /\ ent[s].launched)
    /\ aabbIntersects(World, c, s)

\* C14: a tick that finds a shuriken or a launched bomb over a registered
\* cone takes the cone out of the scene and leaves it off the active list;
\* a cone with neither over it is left as it is
C14_ConeRemoved ==
    [][pc = "sweep" =>
          \A c \in Cones \cap Registered :
             IF \E s \in Ids : Strikes(s, c)
             THEN c \notin SeqToSet(colisionObjects') /\ ent'[c].parent = "none"
             ELSE c \in SeqToSet(colisionObjects') /\ ent'[c] = ent[c]]_vars

\* cone, wall or track b is registered and bomb s, registered too, has its box over b's
BombOver(s, b) ==
    /\ s \in Registered
    /\ b \in Registered
    /\ ent[b].kind \in {"Cone", "Wall", "Track"}
    /\ aabbIntersects(World, s, b)

\* C15: a tick that finds a launched, unexploded bomb over a cone, a wall or
\* the track leaves it exploded; a tick never explodes a bomb that is not
\* launched
C15_BombExplodes ==
    [][pc = "sweep" =>
          \A s \in Bombs :
             /\ (ent[s].launched /\ ~ent[s].exploded /\ \E b \in Ids : BombOver(s, b))
                   => ent'[s].exploded
             /\ ~ent[s].launched => ent'[s] = ent[s]]_vars

\* the thrown bomb came down on the track, clear of the wall, and the tick
\* left it exploded at the track's call
C15_Witness ==
    /\ pc = "running"
    /\ frames >= 1
    /\ \E s \in Bombs :
          /\ ent[s].launched
          /\ ent[s].exploded
          /\ hist[s].hits >= 1
          /\ \E k \in 1..Len(calls) : ent[calls[k].a].kind = "Track" /\ calls[k].b = s
          /\ \A b \in WallsOf : ~aabbIntersects(World, s, b)

\* the registered shurikens a tick finds with their box over a registered cone's
OnCone ==
    {s \in Shurikens \cap Registered :
        \E c \in Cones \cap Registered : aabbIntersects(World, s, c)}

\* s without the members of set
Without(s, set) == SelectSeq(s, LAMBDA x : x \notin set)

\* C16: a tick that finds a shuriken over a cone detaches the shuriken from
\* its parent and leaves it off the active list, and what leaves the kart's
\* proyectilesList is that shuriken itself: no other entry is removed, and
\* the list is unchanged when the shuriken was not in it
C16_ShurikenOnCone ==
    [][pc = "sweep" =>
          /\ \A s \in OnCone :
                ent'[s].parent = "none" /\ s \notin SeqToSet(colisionObjects')
          /\ kart'.proyectilesList = Without(kart.proyectilesList, OnCone)]_vars

\* the registered projectiles held in reserve: shurikens and bombs not launched
Reserve ==
    {p \in Registered : ent[p].kind \in {"Shuriken", "Bomb"} /\ ~ent[p].launched}

\* cone, wall or track b is registered, projectile p's box is over b's and no
\* launched projectile's box is
OnlyReserveOver(p, b) ==
    /\ b \in Registered
    /\ ent[b].kind \in {"Cone", "Wall", "Track"}
    /\ aabbIntersects(World, p, b)
    /\ \A q \in Registered :
          (ent[q].kind \in {"Shuriken", "Bomb"} /\ ent[q].launched)
             => ~aabbIntersects(World, q, b)

\* C13: a tick leaves every projectile that is not launched as it was and on
\* the active list, and leaves a cone, wall or track that only such
\* projectiles are over as it was and on the active list
C13_ReserveUntouched ==
    [][pc = "sweep" =>
          \A p \in Reserve :
             /\ ent'[p] = ent[p]
             /\ p \in SeqToSet(colisionObjects')
             /\ \A b \in Ids : OnlyReserveOver(p, b)
                   => ent'[b] = ent[b] /\ b \in SeqToSet(colisionObjects')]_vars

\* the part of v along the unit vector n
Along(v, n) == VScale(n, Dot(v, n), U)

\* r is d mirrored in the plane of unit normal n: the normal part is
\* reversed, the tangential part is kept and both have length U
Mirrored(d, n, r) ==
    /\ Dot(d, n) <= 0
    /\ Dot(r, n) = 0 - Dot(d, n)
    /\ VSub(r, Along(r, n)) = VSub(d, Along(d, n))
    /\ LengthSq(d) = U * U
    /\ LengthSq(r) = U * U

\* C17: for the direction d of every shuriken and the normal n of every wall,
\* turned to face d, reflectDirection returns r with r.n = -(d.n), the
\* tangential part of d, and |r| = |d| = 1
C17_Reflection ==
    \A s \in Shurikens, b \in WallsOf :
        Mirrored(getMovementDirectionWorld(World, s),
                 FacingNormal(getMovementDirectionWorld(World, s),
                              getObjectForwardWorld(World, b)),
                 reflectDirection(World, s, b))

\* a shuriken flying obliquely to the wall has bounced off it and flies on
\* obliquely, its velocity being the reflected direction scaled
C17_Witness ==
    \E s \in Shurikens \cap Registered, b \in WallsOf :
        /\ ent[s].launched
        /\ ent[s].bounces >= 1
        /\ ent[s].velocity[1] # 0
        /\ ent[s].velocity[3] # 0
        /\ Dot(getMovementDirectionWorld(World, s), getObjectForwardWorld(World, b)) > 0

\* the world boxes of a and b meet in a face: the upper bound of a is the
\* lower bound of b along axis k, and their extents meet along the other axes
FaceToFace(a, b, k) ==
    /\ WorldAABB(World, a).hi[k] = WorldAABB(World, b).lo[k]
    /\ \A m \in 1..3 \ {k} :
          /\ WorldAABB(World, a).lo[m] <= WorldAABB(World, b).hi[m]
          /\ WorldAABB(World, b).lo[m] <= WorldAABB(World, a).hi[m]

\* C18: aabbIntersects gives the same answer for (a, b) and (b, a), for every
\* two objects in every state, and two boxes that meet in a face intersect
\* in both orders
C18_Symmetric ==
    \A a \in Ids, b \in Ids :
        /\ aabbIntersects(World, a, b) = aabbIntersects(World, b, a)
        /\ (\E k \in 1..3 : FaceToFace(a, b, k))
              => aabbIntersects(World, a, b) /\ aabbIntersects(World, b, a)

\* a held shuriken's box and a cone's box meet in a face and nowhere else
C18_Witness ==
    \E s \in Shurikens, c \in Cones, k \in 1..3 :
        /\ FaceToFace(s, c, k)
        /\ aabbIntersects(World, s, c)
        /\ aabbIntersects(World, c, s)

\* the kart of world w holds nothing: no child in the holder, no stored
\* projectile, no active power-up, type -1
HoldsNothing(w) ==
    /\ w.kart.powerUpsList = <<>>
    /\ w.kart.proyectilesList = <<>>
    /\ ~w.kart.isActivatePowerUps
    /\ w.kart.powerUps = 0 - 1

\* C19: whatever the kart holds when the controls run, clearPowerUps leaves
\* the holder without children, proyectilesList empty, isActivatePowerUps
\* false and powerUps -1
C19_ClearEmpties == pc = "running" => HoldsNothing(clearPowerUps(World))

\* the power-up types setPowerUps is called with
Counts == 0..6

\* world v has the power-up type, stored projectiles, holder children and
\* active list of world w
SameHold(w, v) ==
    /\ v.kart.powerUps = w.kart.powerUps
    /\ v.kart.proyectilesList = w.kart.proyectilesList
    /\ v.kart.powerUpsList = w.kart.powerUpsList
    /\ v.colisionObjects = w.colisionObjects

\* C20: setPowerUps(count) on a kart with an active power-up and an item in
\* the holder leaves powerUps, proyectilesList, the holder's children and
\* the active list as they were; on any other kart it sets the type to count
\* and fills the holder
C20_SetIgnored ==
    \A count \in Counts :
        IF kart.isActivatePowerUps /\ Len(kart.powerUpsList) >= 1
        THEN SameHold(World, setPowerUps(World, count))
        ELSE /\ setPowerUps(World, count).kart.powerUps = count
             /\ setPowerUps(World, count).kart.isActivatePowerUps
             /\ Len(setPowerUps(World, count).kart.powerUpsList) > Len(kart.powerUpsList)

\* the kart was given a bomb by key 3 and the sweep of the same frame, which
\* found the bomb registered, collected the pickup, whose setPowerUps was
\* ignored: the kart holds the one bomb and nothing else
C20_Witness ==
    /\ frames = 1
    /\ PowerUps # {}
    /\ PowerUps \cap Registered = {}
    /\ kart.powerUps = 3
    /\ kart.isActivatePowerUps
    /\ Len(kart.powerUpsList) = 1
    /\ kart.proyectilesList = kart.powerUpsList
    /\ \A p \in SeqToSet(kart.powerUpsList) :
          ent[p].kind = "Bomb" /\ p \in SeqToSet(sweepStart)
    /\ \E k \in 1..Len(calls) : calls[k].a \in PowerUps /\ calls[k].b = TheKart

\* C21: no isColliding call of a sweep resolves the penetration of a body
\* without a parent (body.parent!.worldToLocal throws on it): no call of the
\* latest sweep ended in that exception and the frame loop is not left by it
C21_MoverHasParent ==
    /\ pc # "crashed"
    /\ \A k \in 1..Len(calls) : ~calls[k].thrown

----------------------------------------------------------------------------
(* Properties of the kart on the road *)

\* the registered walls and cones, and those the kart's box is over
Obstacles == {b \in Registered : ent[b].kind \in {"Wall", "Cone"}}
UnderKart == {b \in Obstacles : KartOnWall(b)}

\* v halved n times, as kart.speed *= 0.5 does
RECURSIVE HalvedTimes(_, _)
HalvedTimes(v, n) == IF n = 0 THEN v ELSE HalvedTimes(QuotZ(v, 2), n - 1)

\* a and b differ by at most d along every axis
Within(a, b, d) == \A k \in 1..3 : a[k] - b[k] \in (0 - d)..d

\* the calls a(b) in the log of the sweep that ends the step
CallsOf(a, b) == {k \in 1..Len(calls') : calls'[k].a = a /\ calls'[k].b = b}

\* C22: in a tick, the kart's own row makes no call, each registered wall
\* or cone is called once with the kart, and for the walls and cones the
\* kart is over its speed is halved once each and its position pushed at
\* most 0.01 each: one reaction for each pair, none without an overlap
C22_OneReaction ==
    [][pc = "sweep" =>
          /\ \A b \in Ids : CallsOf(TheKart, b) = {}
          /\ \A b \in Obstacles : Cardinality(CallsOf(b, TheKart)) = 1
          /\ kart'.speed = HalvedTimes(kart.speed, Cardinality(UnderKart))
          /\ Within(ent'[TheKart].pos, ent[TheKart].pos,
                    KartStrength * Cardinality(UnderKart))]_vars

\* a tick has found the moving kart over the wall and over a cone at once,
\* has called both with the kart, and the kart, pushed, is still over both
C22_Witness ==
    /\ pc = "running"
    /\ frames >= 1
    /\ kart.speed > 0
    /\ \E b \in WallsOf, c \in Cones :
          /\ KartOnWall(b)
          /\ KartOnWall(c)
          /\ \E k \in 1..Len(calls) : calls[k].a = b /\ calls[k].b = TheKart
          /\ \E k \in 1..Len(calls) : calls[k].a = c /\ calls[k].b = TheKart

----------------------------------------------------------------------------
(* Properties of the end of an explosion *)

\* C23: an exploding bomb not yet cleaned up is on the active list; the
\* cleanup is asked for only by an update call that finds explosionElapsed
\* at explosionDuration or beyond, never earlier; and the tick that follows
\* the request leaves the bomb off the active list, nothing pending
C23_RemovedAfterGrowth ==
    /\ [](\A b \in Bombs :
             /\ Phase(ent[b]) = 1 => b \in Registered
             /\ ent[b].cleanupScheduled =>
                    /\ ent[b].explosionElapsed >= ExplosionDuration
                    /\ b \notin Registered
                    /\ b \notin objectsRemove)
    /\ [][\A b \in Bombs :
             (~ent[b].cleanupScheduled /\ ent'[b].cleanupScheduled) =>
                 /\ ent[b].exploded
                 /\ ent[b].explosionElapsed >= ExplosionDuration
                 /\ ent'[b].explosionElapsed = ent[b].explosionElapsed
                 /\ b \in Registered]_vars

\* a bomb whose growth was fed 6 s in two updates was cleaned up by the
\* update after them and is off the active list
C23_Witness ==
    \E b \in Bombs :
        /\ ent[b].cleanupScheduled
        /\ ent[b].explosionElapsed > ExplosionDuration
        /\ hist[b].cleanups = 1
        /\ b \notin Registered

----------------------------------------------------------------------------
(* Properties of the launch *)

\* the last child of the holder
LastHeld == kart.powerUpsList[Len(kart.powerUpsList)]

\* C24: updateControls never fails for want of the popped visual's instance
\* in proyectilesList, and a step that launches a projectile takes the last
\* child out of the holder, marks its instance launched and moves that
\* instance from proyectilesList to the end of proyectilLaunched
C24_LaunchedIsPopped ==
    [][pc = "running" =>
          /\ pc' # "crashed"
          /\ Len(kart'.proyectilLaunched) > Len(kart.proyectilLaunched) =>
                /\ kart'.powerUpsList = SubSeq(kart.powerUpsList, 1, Len(kart.powerUpsList) - 1)
                /\ kart'.proyectilLaunched = Append(kart.proyectilLaunched, LastHeld)
                /\ ent'[LastHeld].launched
                /\ kart'.proyectilesList = Without(kart.proyectilesList, {LastHeld})
                /\ Len(kart'.proyectilesList) = Len(kart.proyectilesList) - 1]_vars

----------------------------------------------------------------------------
(* Properties of the push away from a cone *)

\* the kart and object c have the same world x and z
Aligned(c) ==
    /\ WorldPos(World, TheKart)[1] = WorldPos(World, c)[1]
    /\ WorldPos(World, TheKart)[3] = WorldPos(World, c)[3]

\* C25: resolvePenetrationObstacles(kart, cone), for a cone the kart is over,
\* leaves the kart's world y as it is and changes nothing when the kart and
\* the cone have the same world x and z; the sweeps, which call it, keep the
\* kart's y
C25_PushIsHorizontal ==
    /\ [](\A c \in Cones :
             KartOnWall(c) =>
                /\ WorldPos(resolvePenetrationObstacles(World, TheKart, c, KartStrength),
                            TheKart)[2] = WorldPos(World, TheKart)[2]
                /\ Aligned(c) =>
                      resolvePenetrationObstacles(World, TheKart, c, KartStrength) = World)
    /\ [][pc = "sweep" => ent'[TheKart].pos[2] = ent[TheKart].pos[2]]_vars

\* a tick has called a cone with the kart over it and to its side: the kart
\* was pushed off its line, at the height it had
C25_Witness ==
    /\ pc = "running"
    /\ frames >= 1
    /\ ent[TheKart].pos[1] # KartStart[1]
    /\ ent[TheKart].pos[2] = KartStart[2]
    /\ \E c \in Cones :
          /\ KartOnWall(c)
          /\ ~Aligned(c)
          /\ \E k \in 1..Len(calls) : calls[k].a = c /\ calls[k].b = TheKart

----------------------------------------------------------------------------
(* Properties of the boost *)

\* the step activates a boost
Boosts == kart'.boostEndTime # kart.boostEndTime

\* the kart is back to normal: the original cap, no boost, no falloff
Normal ==
    /\ kart.maxSpeed = OriginalMaxSpeed
    /\ ~kart.boostActive
    /\ ~kart.boostFalloff

\* C26: boostActive and boostFalloff are never both true; a call of
\* updateBoost at or past boostEndTime leaves boostActive false; a step that
\* activates no boost never raises maxSpeed; and once a boost is active, the
\* calls of updateBoost that follow bring maxSpeed back to originalMaxSpeed
\* with boostFalloff false
C26_BoostEnds ==
    /\ [](~(kart.boostActive /\ kart.boostFalloff))
    /\ [][~Boosts =>
            /\ (kart.boostActive /\ Now >= kart.boostEndTime) => ~kart'.boostActive
            /\ kart'.maxSpeed <= kart.maxSpeed]_vars
    /\ kart.boostActive ~> Normal

\* a boost was activated, has ended and has fallen off to the original cap
C26_Witness ==
    /\ Normal
    /\ kart.boostEndTime > 0
    /\ Now > kart.boostEndTime

\* C27: the kart's speed never exceeds its cap, after the controls of a
\* frame and after its sweep, whatever the keys, the boost, its end and
\* falloff, and the walls and cones in the way
C27_SpeedUnderCap == kart.speed <= kart.maxSpeed

\* a frame ends with the boost falling off and the speed at the lowered cap
C27_Witness ==
    /\ pc = "running"
    /\ kart.boostFalloff
    /\ kart.maxSpeed < BoostedMaxSpeed
    /\ kart.speed = kart.maxSpeed

\* the kart, the walls and the track
Fixtures == {e \in Ids : ent[e].kind \in {"Kart", "Wall", "Track"}}

\* C28: the kart, every wall and the track are on the list and not pending,
\* now and after every call of the latest sweep: no handler and no update
\* of a frame schedules one of them, so whatever leaves the list is a cone,
\* a pickup, a shuriken or a bomb
C28_FixturesStay ==
    /\ Fixtures \subseteq Registered
    /\ Fixtures \cap objectsRemove = {}
    /\ \A k \in 1..Len(calls) :
          /\ Fixtures \subseteq SeqToSet(calls[k].list)
          /\ Fixtures \cap calls[k].pending = {}

\* what the latest sweep took off the list
Gone == SeqToSet(sweepStart) \ Registered

\* a call with a wall scheduled a removal in the latest sweep, which has
\* returned with that object off the list, and the pickup left in a sweep
\* before it
C28_Witness ==
    /\ pc = "running"
    /\ \E k \in 1..Len(calls) :
          Requested(k) # {} /\ Requested(k) \subseteq Gone /\ ent[calls[k].b].kind = "Wall"
    /\ \E e \in Ids \ SeqToSet(sweepStart) : ent[e].kind = "PowerUp"

\* the identifiers of the objects of the worlds of SpentWorlds
SpentIds == UNION {1..Len(w.ent) : w \in SpentWorlds}

\* e was launched and is off the registry
Stale(e) == e \in SeqToSet(kart.proyectilLaunched) /\ e \notin Registered

OverKart == {p \in PowerUps \cap Registered : aabbIntersects(World, TheKart, p)}

\* C30: a tick that finds a pickup over a kart with an active power-up and
\* an item in the holder takes the pickup off the list and leaves the
\* power-up type, the stored projectiles and the holder's children as they were
C30_PickupSpent ==
    [][(pc = "sweep" /\ kart.isActivatePowerUps /\ kart.powerUpsList # <<>> /\ OverKart # {}) =>
          /\ OverKart \cap SeqToSet(colisionObjects') = {}
          /\ kart'.powerUps = kart.powerUps
          /\ kart'.proyectilesList = kart.proyectilesList
          /\ kart'.powerUpsList = kart.powerUpsList]_vars

\* the kart, holding the shuriken it was given in an earlier frame, has driven
\* onto the pickup, and the sweep has taken the pickup and left the shuriken
C30_Witness ==
    /\ pc = "running"
    /\ frames >= 2
    /\ kart.powerUps = 0
    /\ kart.isActivatePowerUps
    /\ Len(kart.powerUpsList) = 1
    /\ kart.proyectilesList = kart.powerUpsList
    /\ PowerUps \cap SeqToSet(sweepStart) # {}
    /\ PowerUps \cap Registered = {}
    /\ \E k \in 1..Len(calls) : calls[k].a \in PowerUps /\ Requested(k) = {calls[k].a}

====
